---- MODULE Spec2Model ----
(***************************************************************************)
(* Batch generation engine (utils/data_generator.py) and the length        *)
(* normalisation step of feature extraction (utils/features.py).           *)
(*                                                                         *)
(* Index values and pointers are 0-based as in the Python code; TLA+       *)
(* sequences are 1-based, so position p of a Python list is element p+1.   *)
(* An optional value (None | v) is the sequence <<>> | <<v>>.              *)
(***************************************************************************)
EXTENDS Integers, Sequences, FiniteSets, TLC

(* ----------------------------- bounds --------------------------------- *)
(* construction: dataset size, filename alphabet, manifest rows *)
MaxFiles == 2
MaxNames == 2
MaxRows == 2
(* validate mode: dataset size, batch size, max_iteration cap *)
MaxGenFiles == 3
MaxBatch == 2
MaxCap == 1
(* test mode: size of the test dataset *)
MaxTestFiles == 3
(* train mode: dataset size, batch size *)
MaxTrainFiles == 10
MaxTrainBatch == 4
(* length normalisation: input frames, seq_len *)
MaxFrames == 4
MaxSeqLen == 7
(* number of states of the abstract random stream *)
RngMod == 31
(* train pulls followed beyond one epoch *)
ExtraPulls == 1

(* default of the seed argument of DataGenerator.__init__ *)
DefaultSeed == 1234
(* seed of validate_random_state *)
ValidateSeed == 0

None == <<>>
Some(v) == <<v>>

Min(a, b) == IF a < b THEN a ELSE b
CeilDiv(a, b) == (a + b - 1) \div b

(* Filenames: those a dataset may hold, and one no dataset holds. *)
FileNames == <<"a", "b", "c", "d", "e", "f", "g", "h", "i", "j", "k", "l">>
MissingName == "x"
DataNames(n) == {FileNames[k] : k \in 1..Min(n, Len(FileNames))}

(* All sequences over S of length 0..n. *)
SeqsUpTo(S, n) == UNION {[1..k -> S] : k \in 0..n}

(* ------------------------ Python list slicing -------------------------- *)
(* s[lo : lo + n] for 0 <= lo, 0 <= n *)
Slice(s, lo, n) == SubSeq(s, lo + 1, Min(lo + n, Len(s)))

RangeOf(s) == {s[k] : k \in DOMAIN s}

RECURSIVE Concat(_)
Concat(ss) == IF ss = <<>> THEN <<>> ELSE ss[1] \o Concat(Tail(ss))

(* ------------------------- RandomStream -------------------------------- *)
(* np.random.RandomState(seed): the generator state is a function of the   *)
(* seed alone; every draw advances it deterministically.                   *)
SeedState(s) == s % RngMod
NextRandom(rs) == (3 * rs + 1) % RngMod
(* a draw in 0..i from the advanced state *)
Interval(rs, i) == rs % (i + 1)

Swap_overwrite(s, p, q) == [s EXCEPT ![p] = s[q]]
Swap(s, p, q) == [s EXCEPT ![p] = s[q], ![q] = s[p]]

(* RandomState.shuffle(x): Fisher-Yates from the last position down to      *)
(* position 1, x[i] <-> x[j] with j drawn in 0..i; returns the permuted     *)
(* sequence and the advanced stream state.                                 *)
RECURSIVE ShuffleFrom(_, _, _)
ShuffleFrom(s, rs, i) ==
    IF i < 1 THEN [arr |-> s, rs |-> rs]
    ELSE LET rs2 == NextRandom(rs)
             j == Interval(rs2, i)
         IN ShuffleFrom(Swap(s, i + 1, j + 1), rs2, i - 1)

Shuffle_resampling(s, rs) ==
    LET rs2 == NextRandom(rs)
    IN [arr |-> [p \in 1..Len(s) |-> s[Interval(rs2 * p, Len(s) - 1) + 1]],
        rs |-> rs2]
Shuffle(s, rs) == ShuffleFrom(s, rs, Len(s) - 1)

(* -------------------------- SplitIndexResolver ------------------------- *)
(* A manifest row: the first tab-delimited column split on ','; the        *)
(* filename is field 3 (0-based), li[0].split(',')[3].                     *)
Row(name) == <<"id", "spk", "emo", name>>
AudioNameOf(li) == li[4]

(* name in self.audio_names *)
NameIn(name, names) == \E p \in 1..Len(names) : names[p] = name

(* np.where(self.audio_names == name)[0][0]: first matching position, 0-based *)
FirstIndex_last(name, names) ==
    (CHOOSE p \in 1..Len(names) :
        names[p] = name /\ \A q \in (p + 1)..Len(names) : names[q] # name) - 1
FirstIndex(name, names) ==
    (CHOOSE p \in 1..Len(names) :
        names[p] = name /\ \A q \in 1..(p - 1) : names[q] # name) - 1

(* the loop `for li in lis`, appending one index per matching row *)
RECURSIVE ResolveRows(_, _)
ResolveRows(lis, names) ==
    IF lis = <<>> THEN <<>>
    ELSE LET audio_name == AudioNameOf(lis[1])
         IN (IF NameIn(audio_name, names)
             THEN <<FirstIndex(audio_name, names)>>
             ELSE <<>>) \o ResolveRows(Tail(lis), names)

(* open(csv_file, 'r') with csv_file = None raises TypeError *)
OpenFails(csv_file) == csv_file = None

(* get_audio_indexes_from_csv(csv_file) for a path that opens *)
get_audio_indexes_rownum(csv_file, names) ==
    LET lis == csv_file[1]
        hit == SelectSeq([k \in 1..Len(lis) |-> k],
                         LAMBDA k : NameIn(AudioNameOf(lis[k]), names))
    IN [k \in 1..Len(hit) |-> hit[k] - 1]
get_audio_indexes_from_csv(csv_file, names) == ResolveRows(csv_file[1], names)

(* ------------------------------ state ---------------------------------- *)
(* Two DataGenerator objects, built from the same constructor arguments.   *)
Insts == {1, 2}
(* Validate-mode generator objects, created on object 1.                   *)
ValGens == {1, 2}

VARIABLES
    audio_names,            \* hf['filename'] of the development store
    dev_train_csv,          \* constructor argument: None | manifest rows
    dev_validate_csv,       \* constructor argument: None | manifest rows
    batch_size,             \* constructor argument
    seed,                   \* constructor argument
    cls,                    \* class of each object
    status,                 \* "new" | "ready" | "TypeError" per object
    train_audio_indexes,    \* self.train_audio_indexes per object
    validate_audio_indexes, \* self.validate_audio_indexes per object
    random_state,           \* self.random_state per object
    validate_random_state,  \* self.validate_random_state per object
    mean_std,               \* (self.mean, self.std) per object, None if unset
    tg,                     \* the generate_train() generator of each object
    train_out,              \* index slices it has yielded, in pull order
    vg,                     \* the generate_validate() generators of object 1
    val_out,                \* index slices each has yielded, in pull order
    scale_args,             \* the (mean, std) of each scale() call, per object
    seq_len,                \* config.seq_len
    logmel,                 \* calculate_features: calculate_logmel's frames
    feature,                \* calculate_features: the frames after `repeat`
    fpc                     \* calculate_features: place in the loop body

args == <<audio_names, dev_train_csv, dev_validate_csv, batch_size, seed>>
objs == <<cls, status, train_audio_indexes, validate_audio_indexes,
          random_state, validate_random_state, mean_std>>
gens == <<tg, train_out, vg, val_out, scale_args>>
feats == <<seq_len, logmel, feature, fpc>>
vars == <<args, objs, gens, feats>>

NoTrainGen == [pc |-> "none", audio_indexes |-> <<>>, audios_num |-> 0,
               pointer |-> 0, iteration |-> 0]
(* `undisturbed` is a history flag, not a field of the code: it is FALSE   *)
(* once another generator has permuted the stored list this generator     *)
(* passes over, after this generator's first pull.                        *)
NoValGen == [pc |-> "none", data_type |-> "train", shuffle |-> FALSE,
             max_iteration |-> None, audios_num |-> 0, pointer |-> 0,
             iteration |-> 0, undisturbed |-> TRUE]

(* Feature extraction not running. *)
NoExtraction(sl) ==
    /\ seq_len = sl
    /\ logmel = <<>>
    /\ feature = <<>>
    /\ fpc = "idle"

(* No constructor has run yet, for given constructor arguments. *)
NoObjects(names, train_csv, validate_csv, bs, sd) ==
    /\ audio_names = names
    /\ dev_train_csv = train_csv
    /\ dev_validate_csv = validate_csv
    /\ batch_size = bs
    /\ seed = sd
    /\ cls = [i \in Insts |-> "DataGenerator"]
    /\ status = [i \in Insts |-> "new"]
    /\ train_audio_indexes = [i \in Insts |-> <<>>]
    /\ validate_audio_indexes = [i \in Insts |-> <<>>]
    /\ random_state = [i \in Insts |-> 0]
    /\ validate_random_state = [i \in Insts |-> 0]
    /\ mean_std = [i \in Insts |-> None]
    /\ scale_args = [i \in Insts |-> <<>>]
    /\ tg = [i \in Insts |-> NoTrainGen]
    /\ train_out = [i \in Insts |-> <<>>]
    /\ vg = [g \in ValGens |-> NoValGen]
    /\ val_out = [g \in ValGens |-> <<>>]

(* State before any constructor has run. *)
Fresh(names, train_csv, validate_csv, bs, sd) ==
    /\ NoExtraction(1)
    /\ NoObjects(names, train_csv, validate_csv, bs, sd)

(* --------------------------- ScalarStats ------------------------------- *)
(* self.x[p], the feature tensor of dataset index p, as its elements in    *)
(* order: two elements per file, the files all different                   *)
X(p) == <<p + 1, 2 * p>>

RECURSIVE GCD(_, _)
GCD(a, b) == IF b = 0 THEN a ELSE GCD(b, a % b)
Abs(a) == IF a < 0 THEN 0 - a ELSE a
(* the rational a / b in lowest terms, b >= 0; 0 / 0 is NaN *)
Frac(a, b) ==
    IF b = 0 THEN <<0, 0>>
    ELSE LET g == GCD(Abs(a), b) IN <<a \div g, b \div g>>

RECURSIVE Sum(_)
Sum(s) == IF s = <<>> THEN 0 ELSE s[1] + Sum(Tail(s))

(* calculate_scalar(x): one mean and one standard deviation over every     *)
(* element of every tensor of x.  The standard deviation is held as its    *)
(* square, the mean of the squared elements minus the squared mean.        *)
calculate_scalar(x) ==
    LET elems == Concat(x)
        n == Len(elems)
        total == Sum(elems)
        squares == Sum([k \in 1..n |-> elems[k] * elems[k]])
    IN [mean |-> Frac(total, n),
        std2 |-> Frac(n * squares - total * total, n * n)]

(* self.x[self.train_audio_indexes] *)
ScalarInput_all(audios_num, indexes) == [k \in 1..audios_num |-> X(k - 1)]
ScalarInput(audios_num, indexes) == [k \in 1..Len(indexes) |-> X(indexes[k])]

(* transform(x) on object i: the (mean, std) it hands to scale() *)
transform(i) == mean_std[i]

(* ----------------------- DataGenerator.__init__ ------------------------ *)
(* self.random_state = np.random.RandomState(seed), on object i *)
TrainStream_unseeded(i, sd) == SeedState(sd + i)
TrainStream(i, sd) == SeedState(sd)

(* The constructor of object i, called as class c.  TestDataGenerator      *)
(* passes dev_train_csv = None, dev_validate_csv = None and the default    *)
(* seed to the base constructor.  The train manifest is resolved first; a  *)
(* manifest that cannot be opened raises out of the constructor.           *)
Init__(i, c) ==
    LET train_csv == IF c = "TestDataGenerator" THEN None ELSE dev_train_csv
        validate_csv == IF c = "TestDataGenerator" THEN None ELSE dev_validate_csv
        sd == IF c = "TestDataGenerator" THEN DefaultSeed ELSE seed
    IN /\ status[i] = "new"
       /\ cls' = [cls EXCEPT ![i] = c]
       /\ random_state' = [random_state EXCEPT ![i] = TrainStream(i, sd)]
       /\ validate_random_state' =
              [validate_random_state EXCEPT ![i] = SeedState(ValidateSeed)]
       /\ IF OpenFails(train_csv)
          THEN /\ status' = [status EXCEPT ![i] = "TypeError"]
               /\ UNCHANGED <<train_audio_indexes, validate_audio_indexes,
                              mean_std>>
          ELSE /\ train_audio_indexes' = [train_audio_indexes EXCEPT ![i] =
                      get_audio_indexes_from_csv(train_csv, audio_names)]
               /\ IF OpenFails(validate_csv)
                  THEN /\ status' = [status EXCEPT ![i] = "TypeError"]
                       /\ UNCHANGED <<validate_audio_indexes, mean_std>>
                  ELSE /\ status' = [status EXCEPT ![i] = "ready"]
                       /\ validate_audio_indexes' =
                              [validate_audio_indexes EXCEPT ![i] =
                                  get_audio_indexes_from_csv(validate_csv,
                                                             audio_names)]
                       /\ mean_std' = [mean_std EXCEPT ![i] =
                              Some(calculate_scalar(ScalarInput(
                                  Len(audio_names), train_audio_indexes'[i])))]
       /\ UNCHANGED <<args, gens, feats>>

Construct(I) == \E i \in I : Init__(i, "DataGenerator")
ConstructTest(I) == \E i \in I : Init__(i, "TestDataGenerator")

(* ----------------------- generate_train -------------------------------- *)
(* generate_train(): calling it only creates the generator object; the     *)
(* body runs from the first pull on.                                       *)
TrainCreate(I) ==
    \E i \in I :
        /\ status[i] = "ready"
        /\ tg[i].pc = "none"
        /\ tg' = [tg EXCEPT ![i].pc = "created"]
        /\ UNCHANGED <<args, objs, train_out, vg, val_out, scale_args, feats>>

(* lines 109-116, run by the first pull: a private copy of the stored      *)
(* train IndexSet, shuffled with self.random_state                         *)
TrainPrologue(indexes, rs) ==
    LET sh == Shuffle(indexes, rs)
    IN [g |-> [pc |-> "suspended", audio_indexes |-> sh.arr,
               audios_num |-> Len(indexes), pointer |-> 0, iteration |-> 0],
        rs |-> sh.rs]

(* `if pointer >= audios_num` *)
TrainWraps_never(pointer, audios_num) == FALSE
TrainWraps_late(pointer, audios_num) == pointer > audios_num
TrainWraps(pointer, audios_num) == pointer >= audios_num

(* One pass of the `while True` body, lines 120-136, up to the yield:      *)
(* the generator locals, the stream state and the yielded index slice.     *)
TrainBody(g, rs, bs) ==
    LET wraps == TrainWraps(g.pointer, g.audios_num)
        sh == IF wraps THEN Shuffle(g.audio_indexes, rs)
                       ELSE [arr |-> g.audio_indexes, rs |-> rs]
        pointer == IF wraps THEN 0 ELSE g.pointer
    IN [g |-> [g EXCEPT !.audio_indexes = sh.arr,
                        !.pointer = pointer + bs,
                        !.iteration = g.iteration + 1],
        rs |-> sh.rs,
        batch_audio_indexes |-> Slice(sh.arr, pointer, bs)]

(* the pulls followed: one epoch and ExtraPulls more *)
TrainPullsLeft(i) ==
    tg[i].iteration
        < CeilDiv(Len(train_audio_indexes[i]), batch_size) + ExtraPulls

(* next() on the train generator of object i *)
TrainNext(i) ==
    /\ tg[i].pc \in {"created", "suspended"}
    /\ TrainPullsLeft(i)
    /\ LET start == IF tg[i].pc = "created"
                    THEN TrainPrologue(train_audio_indexes[i], random_state[i])
                    ELSE [g |-> tg[i], rs |-> random_state[i]]
           r == TrainBody(start.g, start.rs, batch_size)
       IN /\ tg' = [tg EXCEPT ![i] = r.g]
          /\ random_state' = [random_state EXCEPT ![i] = r.rs]
          /\ train_out' = [train_out EXCEPT ![i] =
                              Append(@, r.batch_audio_indexes)]
    /\ scale_args' = [scale_args EXCEPT ![i] = Append(@, transform(i))]
    /\ UNCHANGED <<args, cls, status, train_audio_indexes,
                   validate_audio_indexes, validate_random_state, mean_std,
                   vg, val_out, feats>>

TrainPull(I) == \E i \in I : TrainNext(i)

(* ----------------------- generate_validate ----------------------------- *)
DataTypes == {"train", "validate", "test"}
ValidDataType(dt) == dt \in {"train", "validate"}
Caps == {None} \cup {Some(m) : m \in 0..MaxCap}

(* generate_validate(data_type, devices, shuffle, max_iteration) on        *)
(* object 1: calling it only creates the generator object.                 *)
ValCreate(G) ==
    \E g \in G, dt \in DataTypes, sh \in BOOLEAN, mi \in Caps :
        /\ status[1] = "ready"
        /\ vg[g].pc = "none"
        /\ vg' = [vg EXCEPT ![g] = [NoValGen EXCEPT !.pc = "created",
                                                    !.data_type = dt,
                                                    !.shuffle = sh,
                                                    !.max_iteration = mi]]
        /\ UNCHANGED <<args, objs, tg, train_out, val_out, scale_args, feats>>

(* the list `audio_indexes` is bound to: the stored list itself, no copy *)
Selected(dt) == IF dt = "train" THEN train_audio_indexes[1]
                                ELSE validate_audio_indexes[1]

(* `if iteration == max_iteration` *)
CapReached_late(iteration, mi) == mi # None /\ iteration > mi[1]
CapReached(iteration, mi) == mi # None /\ iteration = mi[1]

(* `if pointer >= audios_num` *)
PassDone_early(pointer, bs, audios_num) == pointer + bs > audios_num
PassDone(pointer, bs, audios_num) == pointer >= audios_num

(* lines 157-164 with an unrecognised data_type: the first pull raises *)
ValRaises_never(dt) == FALSE
ValRaises(dt) == ~ValidDataType(dt)

(* next() on validate generator g.  The first pull runs lines 155-175:     *)
(* it raises on an unrecognised data_type, and with shuffle it permutes    *)
(* the stored list in place with self.validate_random_state.  Every pull   *)
(* then runs the `while True` body up to a break or the yield, slicing     *)
(* the stored list as it is at that pull.                                  *)
ValNext(g) ==
    LET v == vg[g]
        first == v.pc = "created"
        old == Selected(v.data_type)
        sh == IF first /\ v.shuffle
              THEN Shuffle(old, validate_random_state[1])
              ELSE [arr |-> old, rs |-> validate_random_state[1]]
        audios_num == IF first THEN Len(old) ELSE v.audios_num
        stops == \/ CapReached(v.iteration, v.max_iteration)
                 \/ PassDone(v.pointer, batch_size, audios_num)
        others == [h \in ValGens |->
                     IF /\ h # g
                        /\ vg[h].pc \in {"suspended", "done"}
                        /\ vg[h].data_type = v.data_type
                        /\ sh.arr # old
                     THEN [vg[h] EXCEPT !.undisturbed = FALSE]
                     ELSE vg[h]]
    IN /\ v.pc \in {"created", "suspended"}
       /\ IF first /\ ValRaises(v.data_type)
          THEN /\ vg' = [vg EXCEPT ![g].pc = "raised"]
               /\ UNCHANGED <<train_audio_indexes, validate_audio_indexes,
                              validate_random_state, val_out, scale_args>>
          ELSE /\ validate_random_state' =
                      [validate_random_state EXCEPT ![1] = sh.rs]
               /\ train_audio_indexes' =
                      IF v.data_type = "train"
                      THEN [train_audio_indexes EXCEPT ![1] = sh.arr]
                      ELSE train_audio_indexes
               /\ validate_audio_indexes' =
                      IF v.data_type = "train"
                      THEN validate_audio_indexes
                      ELSE [validate_audio_indexes EXCEPT ![1] = sh.arr]
               /\ IF stops
                  THEN /\ vg' = [others EXCEPT ![g].pc = "done",
                                               ![g].audios_num = audios_num]
                       /\ UNCHANGED <<val_out, scale_args>>
                  ELSE /\ vg' = [others EXCEPT
                                    ![g].pc = "suspended",
                                    ![g].audios_num = audios_num,
                                    ![g].pointer = v.pointer + batch_size,
                                    ![g].iteration = v.iteration + 1]
                       /\ val_out' = [val_out EXCEPT ![g] =
                              Append(@, Slice(sh.arr, v.pointer, batch_size))]
                       /\ scale_args' = [scale_args EXCEPT ![1] =
                              Append(@, transform(1))]
       /\ UNCHANGED <<args, cls, status, random_state, mean_std, tg,
                      train_out, feats>>

ValPull(G) == \E g \in G : ValNext(g)

(* ------------------------- generate_test ------------------------------- *)
(* the `while True` loop of lines 254-272: break at pointer >= audios_num, *)
(* else yield audio_indexes[pointer : pointer + batch_size]                *)
RECURSIVE TestLoop(_, _, _, _)
TestLoop(audio_indexes, pointer, bs, yielded) ==
    IF pointer >= Len(audio_indexes)
    THEN yielded
    ELSE TestLoop(audio_indexes, pointer + bs, bs,
                  Append(yielded, Slice(audio_indexes, pointer, bs)))

(* generate_test() drained, over a test store of audios_num items:         *)
(* audio_indexes = np.arange(audios_num)                                   *)
generate_test(audios_num, bs) ==
    TestLoop([k \in 1..audios_num |-> k - 1], 0, bs, <<>>)

(* The batches a caller gets from TestDataGenerator(...).generate_test()   *)
(* on object i over a test store of n items: the test store is loaded, and *)
(* the object exists, only once the base constructor has returned.         *)
TestBatches(i, n) ==
    IF status[i] = "ready" THEN generate_test(n, batch_size) ELSE <<>>

(* --------------------- calculate_features ------------------------------ *)
FrameValues == {0, 1}

(* calculate_logmel: the frames of the next audio, at least one *)
ExtractLogmel ==
    /\ fpc \in {"idle", "stored", "TypeError"}
    /\ \E L \in 1..MaxFrames : \E f \in [1..L -> FrameValues] :
           /\ logmel' = f
           /\ feature' = f
    /\ fpc' = "extracted"
    /\ UNCHANGED <<args, objs, gens, seq_len>>

(* stack_n1 = seq_len // len(feature) - 1 *)
StackN1_one_more(sl, L) == sl \div L
StackN1(sl, L) == sl \div L - 1
(* stack_n2 = seq_len % len(feature) *)
StackN2(sl, L) == sl % L

(* np.vstack((feature, feature_temp)), n1 times *)
RECURSIVE VStackTimes(_, _, _)
VStackTimes(f, feature_temp, n1) ==
    IF n1 <= 0 THEN f ELSE VStackTimes(f \o feature_temp, feature_temp, n1 - 1)

(* lines 152-159 *)
Repeat_truncating(f, sl) ==
    IF Len(f) < sl
    THEN LET feature_temp == f
         IN VStackTimes(f, feature_temp, StackN1(sl, Len(f)))
                \o Slice(feature_temp, 0, StackN2(sl, Len(f)))
    ELSE Slice(f, 0, sl)
Repeat(f, sl) ==
    IF Len(f) < sl
    THEN LET feature_temp == f
         IN VStackTimes(f, feature_temp, StackN1(sl, Len(f)))
                \o Slice(feature_temp, 0, StackN2(sl, Len(f)))
    ELSE f

(* lines 152-162: repeat, then hf['feature'][n] = feature, which takes     *)
(* seq_len frames and raises on any other frame count                      *)
RepeatAndStore ==
    /\ fpc = "extracted"
    /\ feature' = Repeat(feature, seq_len)
    /\ fpc' = IF Len(feature') = seq_len THEN "stored" ELSE "TypeError"
    /\ UNCHANGED <<args, objs, gens, seq_len, logmel>>

(* ------------------ specification: construction ------------------------ *)
ManifestRows == {Row(n) : n \in DataNames(MaxNames) \cup {MissingName}}
Manifests == {None} \cup {Some(m) : m \in SeqsUpTo(ManifestRows, MaxRows)}

InitC ==
    \E names \in SeqsUpTo(DataNames(MaxNames), MaxFiles) :
    \E train_csv \in Manifests :
    \E validate_csv \in Manifests :
        Fresh(names, train_csv, validate_csv, MaxBatch, DefaultSeed)

NextC == Construct({1}) \/ ConstructTest({1})

SpecC == InitC /\ [][NextC]_vars

(* ---------------- specification: feature extraction -------------------- *)
InitF ==
    /\ NoObjects(<<>>, Some(<<>>), Some(<<>>), 1, DefaultSeed)
    /\ \E sl \in 1..MaxSeqLen : NoExtraction(sl)
NextF == ExtractLogmel \/ RepeatAndStore
SpecF == InitF /\ [][NextF]_vars

(* ------------------------ claims: construction ------------------------- *)
N == Len(audio_names)
FullRange == [k \in 1..N |-> k - 1]
Attempted(i) == status[i] # "new"
TrainAbsent(i) == cls[i] = "TestDataGenerator" \/ dev_train_csv = None
ValidateAbsent(i) == cls[i] = "TestDataGenerator" \/ dev_validate_csv = None
ManifestNames(csv_file) == {AudioNameOf(li) : li \in RangeOf(csv_file[1])}
RowsRepeat(csv_file) ==
    \E p, q \in 1..Len(csv_file[1]) :
        p # q /\ AudioNameOf(csv_file[1][p]) = AudioNameOf(csv_file[1][q])

(* C1: a constructor run with the train manifest absent, or the validation *)
(* manifest absent, succeeds and the corresponding IndexSet is 0..N-1;     *)
(* this includes every TestDataGenerator.                                  *)
C1_AbsentManifestIsFullRange ==
    \A i \in Insts :
        Attempted(i) =>
            /\ TrainAbsent(i) =>
                   status[i] = "ready" /\ train_audio_indexes[i] = FullRange
            /\ ValidateAbsent(i) =>
                   status[i] = "ready" /\ validate_audio_indexes[i] = FullRange

(* C7, as claimed: with both manifests given and naming disjoint sets of   *)
(* files, the IndexSets share no index and their lengths sum to at most N, *)
(* repeated rows and unknown names included.                               *)
BothGiven(i) ==
    /\ status[i] = "ready"
    /\ ManifestNames(dev_train_csv) \cap ManifestNames(dev_validate_csv) = {}
C7_DisjointAndLengthsBounded ==
    \A i \in Insts :
        BothGiven(i) =>
            /\ RangeOf(train_audio_indexes[i])
                   \cap RangeOf(validate_audio_indexes[i]) = {}
            /\ Len(train_audio_indexes[i]) + Len(validate_audio_indexes[i]) <= N

(* C7, amended: the IndexSets share no index and hold at most N distinct   *)
(* indices together; the lengths sum to at most N when neither manifest    *)
(* repeats a filename.                                                     *)
C7_DisjointAndDistinctBounded ==
    \A i \in Insts :
        BothGiven(i) =>
            /\ RangeOf(train_audio_indexes[i])
                   \cap RangeOf(validate_audio_indexes[i]) = {}
            /\ Cardinality(RangeOf(train_audio_indexes[i]))
                   + Cardinality(RangeOf(validate_audio_indexes[i])) <= N
            /\ (~RowsRepeat(dev_train_csv) /\ ~RowsRepeat(dev_validate_csv)) =>
                   Len(train_audio_indexes[i])
                       + Len(validate_audio_indexes[i]) <= N

C7_Witness ==
    \E i \in Insts :
        /\ BothGiven(i)
        /\ RowsRepeat(dev_train_csv)
        /\ MissingName \in ManifestNames(dev_validate_csv)
        /\ train_audio_indexes[i] # <<>>
        /\ validate_audio_indexes[i] # <<>>

(* C9: the resolved IndexSet lists, in manifest row order, the first       *)
(* dataset position of every row's filename that occurs in the dataset;    *)
(* rows with other filenames add nothing and raise nothing, so it has at   *)
(* most as many entries as rows, all in 0..N-1.                            *)
ResolvedFrom(indexes, csv_file) ==
    LET lis == csv_file[1]
        matched == SelectSeq(lis, LAMBDA li : AudioNameOf(li) \in RangeOf(audio_names))
    IN /\ Len(indexes) = Len(matched)
       /\ Len(indexes) <= Len(lis)
       /\ \A k \in 1..Len(indexes) :
              /\ indexes[k] \in 0..(N - 1)
              /\ audio_names[indexes[k] + 1] = AudioNameOf(matched[k])
              /\ \A q \in 1..indexes[k] : audio_names[q] # AudioNameOf(matched[k])
C9_ResolveFirstMatchInRowOrder ==
    \A i \in Insts :
        /\ (Attempted(i) /\ ~TrainAbsent(i) /\ ~ValidateAbsent(i)) =>
               status[i] = "ready"
        /\ status[i] = "ready" =>
               /\ ResolvedFrom(train_audio_indexes[i], dev_train_csv)
               /\ ResolvedFrom(validate_audio_indexes[i], dev_validate_csv)

C9_Witness ==
    \E i \in Insts :
        /\ status[i] = "ready"
        /\ MissingName \in ManifestNames(dev_train_csv)
        /\ train_audio_indexes[i] = <<0>>
        /\ N = 2
        /\ audio_names[1] = audio_names[2]

(* ------------------ specifications: generators ------------------------- *)
(* A dataset of n distinct files; the train manifest lists the first k in  *)
(* descending order, the validation manifest the others in ascending order.*)
SplitManifest(lo, hi, descending) ==
    Some([p \in 1..(hi - lo + 1) |->
             Row(FileNames[IF descending THEN hi + 1 - p ELSE lo + p - 1])])

InitSplit(maxFiles, maxBatch, seeds) ==
    \E n \in 0..maxFiles :
    \E k \in 0..n :
    \E bs \in 1..maxBatch :
    \E sd \in seeds :
        Fresh([p \in 1..n |-> FileNames[p]],
              SplitManifest(1, k, TRUE), SplitManifest(k + 1, n, FALSE), bs, sd)

(* one object: its train generator and two validate generators *)
Init == InitSplit(MaxGenFiles, MaxBatch, {DefaultSeed})
Next ==
    \/ Construct({1})
    \/ TrainCreate({1})
    \/ TrainPull({1})
    \/ ValCreate(ValGens)
    \/ ValPull(ValGens)
Spec == Init /\ [][Next]_vars

(* two objects built alike, train mode alone, up to MaxTrainFiles files *)
InitT == InitSplit(MaxTrainFiles, MaxTrainBatch, {1, DefaultSeed})
NextT == Construct(Insts) \/ TrainCreate(Insts) \/ TrainPull(Insts)
SpecT == InitT /\ [][NextT]_vars

(* two objects built alike: object 1 also serves a validate generator,    *)
(* object 2 serves its train generator alone                               *)
NextI ==
    \/ Construct(Insts)
    \/ TrainCreate(Insts)
    \/ TrainPull(Insts)
    \/ ValCreate({1})
    \/ ValPull({1})
SpecI == Init /\ [][NextI]_vars

(* ------------------------ claims: validate mode ------------------------ *)
Started(g) == vg[g].pc \in {"suspended", "done"}
(* A: the size of the IndexSet the generator passes over *)
SizeOf(g) == Len(Selected(vg[g].data_type))
BatchSizes(out) == [k \in 1..Len(out) |-> Len(out[k])]

(* C2: without a cap, a validate-mode generator over A indices ends after  *)
(* exactly ceil(A/B) batches, all of B items but the last, which has       *)
(* A - B*(ceil(A/B)-1); none for A = 0.                                    *)
C2_ValidateBatchCount ==
    \A g \in ValGens :
        (Started(g) /\ vg[g].max_iteration = None) =>
            LET A == SizeOf(g)
                K == CeilDiv(A, batch_size)
            IN /\ Len(val_out[g]) <= K
               /\ \A k \in 1..Len(val_out[g]) :
                      Len(val_out[g][k]) =
                          IF k < K THEN batch_size ELSE A - batch_size * (K - 1)
               /\ vg[g].pc = "done" => Len(val_out[g]) = K
               /\ (vg[g].pc = "suspended" /\ Len(val_out[g]) = K) =>
                      vg[g].pointer >= A

C2_Witness ==
    \E g \in ValGens :
        /\ vg[g].pc = "done"
        /\ vg[g].max_iteration = None
        /\ SizeOf(g) = 3
        /\ BatchSizes(val_out[g]) = <<2, 1>>

(* C8, as claimed: an unrecognised data_type is reported when the          *)
(* validate-mode generator is created.                                     *)
C8_InvalidDataTypeRaisesAtCreation ==
    \A g \in ValGens :
        (vg[g].pc # "none" /\ ~ValidDataType(vg[g].data_type)) =>
            vg[g].pc = "raised"

(* C8, amended: creating the generator reports nothing; its first pull     *)
(* raises, so the generator never yields a batch, never shuffles and never *)
(* gets past that pull.                                                    *)
C8_InvalidDataTypeRaisesAtFirstPull ==
    \A g \in ValGens :
        (vg[g].pc # "none" /\ ~ValidDataType(vg[g].data_type)) =>
            /\ vg[g].pc \in {"created", "raised"}
            /\ val_out[g] = <<>>
            /\ vg[g].iteration = 0
            /\ (\A h \in ValGens : vg[h].pc \in {"none", "created", "raised"}) =>
                   validate_random_state[1] = SeedState(ValidateSeed)

C8_Witness ==
    \E g \in ValGens :
        /\ vg[g].pc = "raised"
        /\ vg[g].data_type = "test"
        /\ vg[g].shuffle

(* C10: a validate-mode generator yields, in order, the slices of its      *)
(* IndexSet from position 0 (no other generator having reshuffled that     *)
(* IndexSet since its first pull), each position once; capped at M it     *)
(* yields min(M, ceil(A/B)) batches, the first min(M*B, A) positions.      *)
BatchLimit(g) ==
    LET K == CeilDiv(SizeOf(g), batch_size)
    IN IF vg[g].max_iteration = None THEN K
       ELSE Min(vg[g].max_iteration[1], K)
RECURSIVE ShuffledTimes(_, _)
ShuffledTimes(i, k) ==
    IF k = 0
    THEN [arr |-> train_audio_indexes[i], rs |-> SeedState(seed)]
    ELSE LET prev == ShuffledTimes(i, k - 1) IN Shuffle(prev.arr, prev.rs)

(* C3: the k-th train pull yields IndexSet[p : p+B] at p = B*((k-1) mod P), *)
(* P = ceil(N/B), of the order shuffled once at the start and once more at *)
(* every wrap, and leaves the pointer at p+B; the batch sizes so repeat    *)
(* with period P: floor(N/B) of B, then N mod B if that is not 0.  For     *)
(* N = 10, B = 4 the sizes are 4, 4, 2, 4.                                 *)
C3_TrainSlicesAndWrap ==
    \A i \in Insts :
        LET A == Len(train_audio_indexes[i])
            B == batch_size
            P == CeilDiv(A, B)
            out == train_out[i]
        IN /\ tg[i].iteration = Len(out)
           /\ (A = 0) => \A k \in 1..Len(out) : out[k] = <<>>
           /\ (A >= 1) =>
                 \A k \in 1..Len(out) :
                    LET p == B * ((k - 1) % P)
                        order == ShuffledTimes(i, 1 + (k - 1) \div P)
                    IN /\ out[k] = Slice(order.arr, p, B)
                       /\ Len(out[k]) =
                              IF (k - 1) % P < A \div B THEN B ELSE A % B
                       /\ k = Len(out) =>
                              /\ tg[i].pointer = p + B
                              /\ tg[i].audio_indexes = order.arr
                              /\ random_state[i] = order.rs
           /\ (A = 10 /\ B = 4 /\ Len(out) >= 4) =>
                 SubSeq(BatchSizes(out), 1, 4) = <<4, 4, 2, 4>>

C3_Witness ==
    \E i \in Insts :
        /\ Len(train_audio_indexes[i]) = 10
        /\ batch_size = 4
        /\ BatchSizes(train_out[i]) = <<4, 4, 2, 4>>
        /\ tg[i].pointer = 4
        /\ train_out[i][4] # train_out[i][1]

(* C5: two objects built with the same seed, batch size and train IndexSet *)
(* yield the same index selections, pull for pull, through the first       *)
(* epoch and past the wrap.                                                *)
SamePulls(a, b) ==
    \A k \in 1..Min(Len(a), Len(b)) : a[k] = b[k]
C5_TrainDeterminism ==
    /\ SamePulls(train_out[1], train_out[2])
    /\ (/\ tg[1].pc = "suspended"
        /\ tg[2].pc = "suspended"
        /\ Len(train_out[1]) = Len(train_out[2])) =>
           /\ random_state[1] = random_state[2]
           /\ tg[1].audio_indexes = tg[2].audio_indexes

C5_Witness ==
    LET P == CeilDiv(Len(train_audio_indexes[1]), batch_size)
    IN /\ status[1] = "ready"
       /\ P >= 2
       /\ Len(train_out[1]) = P + 1
       /\ Len(train_out[2]) = P + 1
       /\ train_out[1][P + 1] # train_out[1][1]
       /\ Concat(train_out[1]) # train_audio_indexes[1]

(* C6: pulling validate-mode generators leaves the stored IndexSets alone, *)
(* and the train generator yields the same index selections whether or    *)
(* not validate-mode generators are pulled on its object (object 1 serves  *)
(* them, object 2 does not).                                               *)
C6_ValidateLeavesTrainAlone ==
    /\ (status[1] = "ready" /\ status[2] = "ready") =>
           /\ train_audio_indexes[1] = train_audio_indexes[2]
           /\ validate_audio_indexes[1] = validate_audio_indexes[2]
    /\ SamePulls(train_out[1], train_out[2])

(* C14: the train generator never ends: it is never exhausted and never   *)
(* raises, every pull yields one batch (as many batches as passes of the   *)
(* loop body), and over a non-empty IndexSet every batch holds 1..B        *)
(* indices.                                                                *)
C14_TrainNeverEnds ==
    \A i \in Insts :
        /\ tg[i].pc \in {"none", "created", "suspended"}
        /\ Len(train_out[i]) = tg[i].iteration
        /\ tg[i].pc = "suspended" => tg[i].iteration >= 1
        /\ Len(train_audio_indexes[i]) >= 1 =>
               \A k \in 1..Len(train_out[i]) :
                   /\ Len(train_out[i][k]) >= 1
                   /\ Len(train_out[i][k]) <= batch_size

(* an exact multiple of B, pulled past the wrap; and an empty IndexSet *)
C14_Witness ==
    /\ Len(train_audio_indexes[1]) = 4
    /\ batch_size = 2
    /\ BatchSizes(train_out[1]) = <<2, 2, 2>>
    /\ status[2] = "ready"
    /\ tg[2].pc = "suspended"

(* the number of times v occurs in s *)
Count(s, v) == Cardinality({p \in DOMAIN s : s[p] = v})
SameMultiset(a, b) ==
    /\ Len(a) = Len(b)
    /\ \A v \in RangeOf(a) \cup RangeOf(b) : Count(a, v) = Count(b, v)

(* the batches of epoch e (pulls (e-1)P+1 .. eP) of object i *)
EpochBatches(i, e) ==
    LET P == CeilDiv(Len(train_audio_indexes[i]), batch_size)
    IN SubSeq(train_out[i], (e - 1) * P + 1, e * P)

(* C15: the batches of one epoch are the consecutive slices [0:B], [B:2B], *)
(* ... of one order, and that order is a permutation of the train          *)
(* IndexSet: every position is delivered exactly once, whether or not B    *)
(* divides N.                                                              *)
C15_EpochIsPermutation ==
    \A i \in Insts :
        LET A == Len(train_audio_indexes[i])
            B == batch_size
            P == CeilDiv(A, B)
        IN A >= 1 =>
              \A e \in 1..(Len(train_out[i]) \div P) :
                  LET flat == Concat(EpochBatches(i, e))
                  IN /\ SameMultiset(flat, train_audio_indexes[i])
                     /\ \A v \in RangeOf(train_audio_indexes[i]) :
                            Count(flat, v) = Count(train_audio_indexes[i], v)
                     /\ \A k \in 1..P :
                            EpochBatches(i, e)[k] =
                                SubSeq(flat, (k - 1) * B + 1, Min(k * B, A))

(* 10 indices in batches of 4: a full epoch of 4 + 4 + 2, in another order *)
(* than the stored one                                                     *)
C15_Witness ==
    /\ Len(train_audio_indexes[1]) = 10
    /\ batch_size = 4
    /\ Len(train_out[1]) >= 3
    /\ Concat(EpochBatches(1, 1)) # train_audio_indexes[1]
    /\ Len(Concat(EpochBatches(1, 1))) = 10

(* ------------------------ claims: IndexSets ---------------------------- *)
(* the IndexSets as the constructor resolved them *)
ConstructedTrain == get_audio_indexes_from_csv(dev_train_csv, audio_names)
ConstructedValidate == get_audio_indexes_from_csv(dev_validate_csv, audio_names)

(* C16: whatever generators were created and pulled, in whatever mode, the *)
(* stored train and validate IndexSets hold the indices the constructor    *)
(* resolved, each as many times: shuffling permutes, nothing is added,     *)
(* removed or replaced.                                                    *)
C16_IndexSetsKeepTheirIndices ==
    status[1] = "ready" =>
        /\ SameMultiset(train_audio_indexes[1], ConstructedTrain)
        /\ SameMultiset(validate_audio_indexes[1], ConstructedValidate)

(* two shuffling validate generators pulled on the train IndexSet, and a   *)
(* train generator pulled past its wrap; the stored order has changed      *)
C16_Witness ==
    /\ status[1] = "ready"
    /\ \A g \in ValGens :
           /\ Started(g)
           /\ vg[g].shuffle
           /\ vg[g].data_type = "train"
    /\ Len(train_audio_indexes[1]) = 3
    /\ train_audio_indexes[1] # ConstructedTrain
    /\ Len(train_out[1]) >= 2

(* -------------------------- claims: test mode -------------------------- *)
(* C12: a TestDataGenerator over a test dataset of n items yields the      *)
(* indices 0..n-1 in order: ceil(n/B) batches, all but the last of B       *)
(* indices, their concatenation 0, 1, ..., n-1, and neither random stream  *)
(* drawn from.                                                             *)
C12_TestYieldsAllInOrder ==
    \A i \in Insts :
        (Attempted(i) /\ cls[i] = "TestDataGenerator") =>
            \A n \in 0..MaxTestFiles :
                LET yielded == TestBatches(i, n)
                IN /\ Concat(yielded) = [k \in 1..n |-> k - 1]
                   /\ Len(yielded) = CeilDiv(n, batch_size)
                   /\ \A k \in 1..(Len(yielded) - 1) :
                          Len(yielded[k]) = batch_size
                   /\ random_state[i] = SeedState(DefaultSeed)
                   /\ validate_random_state[i] = SeedState(ValidateSeed)

(* ----------------------- claims: ScalarStats --------------------------- *)
(* the statistics of the feature values at the train IndexSet positions,   *)
(* as the constructor resolved them                                        *)
TrainStats ==
    calculate_scalar([k \in 1..Len(ConstructedTrain) |->
                          X(ConstructedTrain[k])])
(* the statistics of the whole development dataset *)
AllStats == calculate_scalar([k \in 1..N |-> X(k - 1)])

(* C13: (mean, std) is set by the constructor, from the feature values at  *)
(* the train IndexSet positions, and stays so: whatever train and validate *)
(* generators are pulled, it keeps that value, and each batch yielded, of  *)
(* either mode, was scaled with that value.                                *)
C13_ScalarSetOnceFromTrain ==
    /\ \A i \in Insts :
           /\ status[i] = "ready" => mean_std[i] = Some(TrainStats)
           /\ \A k \in 1..Len(scale_args[i]) :
                  scale_args[i][k] # None /\ scale_args[i][k] = mean_std[i]
    /\ Len(scale_args[1]) =
           Len(train_out[1]) + Len(val_out[1]) + Len(val_out[2])
    /\ Len(scale_args[2]) = Len(train_out[2])

(* train and validation files both present; the train generators of both  *)
(* objects pulled, a validate generator passing over the validate IndexSet *)
(* of object 1 having yielded                                              *)
C13_Witness ==
    /\ status[1] = "ready"
    /\ TrainStats # AllStats
    /\ Len(train_audio_indexes[1]) = 2
    /\ Len(validate_audio_indexes[1]) = 1
    /\ Len(train_out[1]) >= 2
    /\ Len(train_out[2]) >= 1
    /\ vg[1].data_type = "validate"
    /\ val_out[1] # <<>>
    /\ Len(scale_args[1]) >= 3

(* ------------------- claims: length normalisation ---------------------- *)
(* C4: 1 <= L < seq_len frames become exactly seq_len frames, frame i of   *)
(* the result being frame i mod L of the input; 3 frames at seq_len 7      *)
(* become input ++ input ++ input[0:1].                                    *)
C4_PrefixRepetition ==
    (fpc # "extracted" /\ logmel # <<>> /\ Len(logmel) < seq_len) =>
        LET L == Len(logmel)
        IN /\ fpc = "stored"
           /\ Len(feature) = seq_len
           /\ \A i \in 0..(seq_len - 1) : feature[i + 1] = logmel[(i % L) + 1]
           /\ SubSeq(feature, 1, L) = logmel
           /\ 2 * L <= seq_len => SubSeq(feature, L + 1, 2 * L) = logmel
           /\ (L = 3 /\ seq_len = 7) =>
                  feature = logmel \o logmel \o SubSeq(logmel, 1, 1)

C4_Witness ==
    /\ fpc = "stored"
    /\ seq_len = 7
    /\ logmel = <<0, 1, 1>>
    /\ feature = <<0, 1, 1, 0, 1, 1, 0>>

(* C11: an input of L >= seq_len frames leaves length normalisation as it  *)
(* came: no frame added, removed or cut, so L > seq_len frames stay L      *)
(* frames (and the store that follows, which takes seq_len frames, raises).*)
C11_LongInputUnchanged ==
    (fpc \in {"stored", "TypeError"} /\ Len(logmel) >= seq_len) =>
        /\ feature = logmel
        /\ Len(feature) = Len(logmel)
        /\ Len(logmel) > seq_len => fpc = "TypeError"

C11_Witness ==
    /\ fpc = "TypeError"
    /\ seq_len = 2
    /\ Len(logmel) = 4
    /\ feature = logmel

====
